---- MODULE Spec2Model ----
(***************************************************************************)
(* Model of rust/otap-dataflow/crates/engine/src/receiver.rs:              *)
(* ReceiverWrapper (constructors local/shared, control_sender, start,      *)
(* take_pdata_receiver) and the reference TestReceiver run loop with the   *)
(* scenario/validation of the unit tests.                                  *)
(*                                                                         *)
(* The channel primitives (otap_df_channel::mpsc, tokio::sync::mpsc), the  *)
(* ControlMsg type, the effect handler and the counters object are not     *)
(* part of receiver.rs; they are modelled from the specification text      *)
(* (bounded FIFO queue, send suspends when full, send fails when the       *)
(* consumer is gone, receive yields closed when no producer is left).      *)
(***************************************************************************)
EXTENDS Integers, Sequences, FiniteSets, TLC

\* ---------------------------------------------------------------- bounds
\* number of control_sender() calls explored
MaxHandles == 2
\* control messages sent over all handles in a control-only run
MaxCtrlSends == 3
\* control messages sent in a run that also has a client connection
MaxMixedSends == 2
\* number of client connections (one spawned task each)
MaxConns == 2
\* config.control_channel.capacity of the explored configuration
CtrlCapacity == 2
\* config.output_pdata_channel.capacity of the explored configuration
PdataCapacity == 1
\* largest number of timer ticks of the scripted scenario (k < TickLimit)
MaxScenarioTicks == 4

\* --------------------------------------------------- program constants
\* receiver.rs:248 / :327 "exit the loop after 5 timer ticks"
TickLimit == 5
\* a valid one-byte UTF-8 code unit ('H') and an invalid one (0xFF)
ByteH == 72
ByteInvalid == 255
\* U+FFFD REPLACEMENT CHARACTER produced by String::from_utf8_lossy
ReplacementChar == 65533

VARIABLES
    config,         \* ReceiverConfig: channel capacities
    variant,        \* the enum variant of the wrapper: "Local" | "Shared"
    wrapper,        \* the fields of the ReceiverWrapper value
    channels,       \* channel id -> [cap, q]
    wpc,            \* ReceiverWrapper::start: "built" | "running" | "returned",
                    \* or "direct": taken apart, the receiver run by the caller
    startResult,    \* <<>> until start returns, then <<result>>
    handles,        \* handles returned by control_sender(), in call order
    takes,          \* outcomes of take_pdata_receiver(): of the first call,
                    \* and of all the calls after it
    downstream,     \* holder of the claimed data consumer: "none"|"held"|"dropped"
    rpc,            \* TestReceiver::start: "init"|"bind"|"select"|"check"|"done"
    runResult,      \* <<>> until the run entry point returns, then <<result>>
    ctrl_msg_recv,  \* <<>> or <<ControlChannel given to the receiver>>
    portNotified,   \* port_notifier.send(local_addr) happened
    counters,       \* CtrlMsgCounters
    conns,          \* per connection: client socket and spawned task
    ctrlRecvd,      \* history: per handle, number of its messages received,
                    \*          and the last control message the loop received
    dataLog,        \* history: per task, number of its payloads received,
                    \*          and the last payload the data consumer received
    emitted,        \* history: per task, payloads whose send_message completed
    sendsLeft,      \* remaining control sends the environment may issue
    writesLeft,     \* remaining client writes the environment may issue
    kinds,          \* the control message kinds the environment sends
    connsLeft,      \* remaining client connections the environment may open
    ticksToSend     \* number of timer ticks the scripted scenario sends

vars == << config, variant, wrapper, channels, wpc, startResult, handles, takes,
           downstream, rpc, runResult, ctrl_msg_recv, portNotified, counters,
           conns, ctrlRecvd, dataLog, emitted, sendsLeft, writesLeft, kinds,
           connsLeft, ticksToSend >>

\* ------------------------------------------------------------- helpers
None == << >>
Some(x) == << x >>
IsSome(o) == Len(o) = 1
Unwrap(o) == o[1]

ChanIds == {"control", "pdata"}
Conns == 1 .. MaxConns

RECURSIVE SelectSeq2(_, _)
\* subsequence of s whose provenance tag src equals p
SelectSeq2(s, p) ==
    IF s = << >> THEN << >>
    ELSE IF Head(s).src = p THEN << Head(s) >> \o SelectSeq2(Tail(s), p)
         ELSE SelectSeq2(Tail(s), p)

\* ------------------------------------------------- channel primitives
\* mpsc::Channel::new(capacity) / tokio::sync::mpsc::channel(capacity):
\* a bounded queue; both ends name the same channel id.
NewChannel(impl, id, capacity) ==
    [ state |-> [cap |-> capacity, q |-> << >>],
      tx    |-> [impl |-> impl, chan |-> id],
      rx    |-> [impl |-> impl, chan |-> id] ]

\* the raw channel end inside an engine-level Sender/Receiver handle
Inner(h) == IF "inner" \in DOMAIN h THEN h.inner ELSE h
ChanOf(h) == Inner(h).chan

IsFull(chs, id) == Len(chs[id].q) >= chs[id].cap
Enqueue(chs, id, item) == [chs EXCEPT ![id].q = Append(@, item)]
Dequeue(chs, id) == [chs EXCEPT ![id].q = Tail(@)]

\* ------------------------------------------------------- control messages
ControlMsgKinds == {"TimerTick", "Config", "Shutdown"}
is_shutdown(msg) == msg.kind = "Shutdown"

ZeroCounters == [timer_tick |-> 0, message |-> 0, config |-> 0, shutdown |-> 0]
\* CtrlMsgCounters::update_with
update_with(c, msg) ==
    CASE msg.kind = "TimerTick" -> [c EXCEPT !.timer_tick = @ + 1]
      [] msg.kind = "Config"    -> [c EXCEPT !.config = @ + 1]
      [] msg.kind = "Shutdown"  -> [c EXCEPT !.shutdown = @ + 1]
      [] OTHER                  -> c

\* the payload type of the tests: TestMsg(String)
TestMsg(text) == [text |-> text]

\* String::from_utf8_lossy(&buf[..n]): invalid bytes become U+FFFD
from_utf8_lossy(bytes) ==
    [i \in 1 .. Len(bytes) |->
        IF bytes[i] < 128 THEN bytes[i] ELSE ReplacementChar]

\* ------------------------------------------------------- constructors
\* variation of local: the data channel is sized by the control capacity
local_swapped(cfg) ==
    LET c == NewChannel("otap", "control", cfg.pdata_capacity)
        p == NewChannel("otap", "pdata", cfg.control_capacity)
    IN [ variant  |-> "Local",
         channels |-> [control |-> c.state, pdata |-> p.state],
         fields   |->
           [ effect_handler   |-> [affinity |-> "local",
                                   pdata_sender |-> [tag |-> "Local", inner |-> p.tx]],
             control_sender   |-> c.tx,
             control_receiver |-> c.rx,
             pdata_receiver   |-> Some([tag |-> "Local", inner |-> p.rx]) ] ]

\* ReceiverWrapper::local(receiver, config)
local(cfg) ==
    LET c == NewChannel("otap", "control", cfg.control_capacity)
        p == NewChannel("otap", "pdata", cfg.pdata_capacity)
    IN [ variant  |-> "Local",
         channels |-> [control |-> c.state, pdata |-> p.state],
         fields   |->
           [ effect_handler   |-> [affinity |-> "local",
                                   pdata_sender |-> [tag |-> "Local", inner |-> p.tx]],
             control_sender   |-> c.tx,
             control_receiver |-> c.rx,
             pdata_receiver   |-> Some([tag |-> "Local", inner |-> p.rx]) ] ]

\* variation of shared: the data channel is sized by the control capacity
shared_swapped(cfg) ==
    LET c == NewChannel("tokio", "control", cfg.pdata_capacity)
        p == NewChannel("tokio", "pdata", cfg.control_capacity)
    IN [ variant  |-> "Shared",
         channels |-> [control |-> c.state, pdata |-> p.state],
         fields   |->
           [ effect_handler   |-> [affinity |-> "shared", pdata_sender |-> p.tx],
             control_sender   |-> c.tx,
             control_receiver |-> c.rx,
             pdata_receiver   |-> Some(p.rx) ] ]

\* ReceiverWrapper::shared(receiver, config)
shared(cfg) ==
    LET c == NewChannel("tokio", "control", cfg.control_capacity)
        p == NewChannel("tokio", "pdata", cfg.pdata_capacity)
    IN [ variant  |-> "Shared",
         channels |-> [control |-> c.state, pdata |-> p.state],
         fields   |->
           [ effect_handler   |-> [affinity |-> "shared", pdata_sender |-> p.tx],
             control_sender   |-> c.tx,
             control_receiver |-> c.rx,
             pdata_receiver   |-> Some(p.rx) ] ]

Configs ==
    { [control_capacity |-> CtrlCapacity, pdata_capacity |-> PdataCapacity] }

IdleConn == [pc |-> "idle", sock |-> << >>, msg |-> << >>, acks |-> 0, eh |-> << >>]

InitWith(cfg, w) ==
    /\ config = cfg
    /\ variant = w.variant
    /\ wrapper = w.fields
    /\ channels = w.channels
    /\ wpc = "built"
    /\ startResult = None
    /\ handles = << >>
    /\ takes = [first |-> None, later |-> {}]
    /\ downstream = "none"
    /\ rpc = "init"
    /\ runResult = None
    /\ ctrl_msg_recv = None
    /\ portNotified = FALSE
    /\ counters = ZeroCounters
    /\ conns = [p \in Conns |-> IdleConn]
    /\ ctrlRecvd = [count |-> [i \in 1 .. MaxHandles |-> 0], last |-> None]
    /\ dataLog = [count |-> [p \in Conns |-> 0], last |-> None]
    /\ emitted = [p \in Conns |-> << >>]

\* What the environment does in one run.
\* Control only: many control messages of every kind, no client.
ControlBudget ==
    [sends |-> MaxCtrlSends, kinds |-> ControlMsgKinds, conns |-> 0, writes |-> 0]
\* Mixed: a few control messages of every kind and one client writing once.
MixedBudget ==
    [sends |-> MaxMixedSends, kinds |-> ControlMsgKinds, conns |-> 1, writes |-> 1]
\* Data: several clients writing one chunk more than the data channel holds,
\* and a shutdown.
DataBudget ==
    [sends |-> 1, kinds |-> {"Shutdown"}, conns |-> MaxConns,
     writes |-> PdataCapacity + 1]
\* Backpressure: one client writing one chunk more than the data channel
\* holds, and a shutdown.
BackpressureBudget ==
    [sends |-> 1, kinds |-> {"Shutdown"}, conns |-> 1, writes |-> PdataCapacity + 1]

InitBudget(b) ==
    /\ \E cfg \in Configs : \E w \in {local(cfg), shared(cfg)} : InitWith(cfg, w)
    /\ sendsLeft = b.sends
    /\ writesLeft = b.writes
    /\ connsLeft = b.conns
    /\ kinds = b.kinds
    /\ ticksToSend = 0

Init ==
    \E b \in {ControlBudget, MixedBudget, DataBudget, BackpressureBudget} :
        InitBudget(b)

\* --------------------------------------------- ReceiverWrapper operations
\* variation of control_sender: clones the producer of the other channel
control_sender_wrong_channel(v, w) ==
    IF v = "Local"
    THEN [tag |-> "Local", inner |-> Inner(w.effect_handler.pdata_sender)]
    ELSE [tag |-> "Shared", inner |-> Inner(w.effect_handler.pdata_sender)]

\* ReceiverWrapper::control_sender(&self) -> Sender<ControlMsg>
control_sender(v, w) ==
    IF v = "Local"
    THEN [tag |-> "Local", inner |-> w.control_sender]
    ELSE [tag |-> "Shared", inner |-> w.control_sender]

\* variation of take_pdata_receiver: reads the slot without clearing it
take_pdata_receiver_keep(v, w) ==
    IF IsSome(w.pdata_receiver)
    THEN [ panicked |-> FALSE,
           value    |-> IF v = "Local"
                        THEN Some(Unwrap(w.pdata_receiver))
                        ELSE Some([tag |-> "Shared", inner |-> Unwrap(w.pdata_receiver)]),
           fields   |-> w ]
    ELSE [ panicked |-> TRUE, value |-> None, fields |-> w ]

\* variation of take_pdata_receiver: the shared arm wraps with the local tag
take_pdata_receiver_local_tag(v, w) ==
    IF IsSome(w.pdata_receiver)
    THEN [ panicked |-> FALSE,
           value    |-> IF v = "Local"
                        THEN Some(Unwrap(w.pdata_receiver))
                        ELSE Some([tag |-> "Local", inner |-> Unwrap(w.pdata_receiver)]),
           fields   |-> [w EXCEPT !.pdata_receiver = None] ]
    ELSE [ panicked |-> TRUE, value |-> None, fields |-> w ]

\* ReceiverWrapper::take_pdata_receiver(&mut self) -> Receiver<PData>
\* Option::take() followed by expect("pdata_receiver is None")
take_pdata_receiver(v, w) ==
    IF IsSome(w.pdata_receiver)
    THEN [ panicked |-> FALSE,
           value    |-> IF v = "Local"
                        THEN Some(Unwrap(w.pdata_receiver))
                        ELSE Some([tag |-> "Shared", inner |-> Unwrap(w.pdata_receiver)]),
           fields   |-> [w EXCEPT !.pdata_receiver = None] ]
    ELSE [ panicked |-> TRUE, value |-> None, fields |-> w ]

\* ReceiverWrapper::start(self): the control channel handed to the receiver
start_ctrl_msg_chan(v, w) ==
    IF v = "Local"
    THEN [ty |-> "local::ControlChannel",
          recv |-> [tag |-> "Local", inner |-> w.control_receiver]]
    ELSE [ty |-> "shared::ControlChannel", recv |-> w.control_receiver]

\* the consumer end of a channel still exists
ConsumerAlive(id) ==
    IF id = "control"
    THEN rpc # "done"
    ELSE /\ downstream # "dropped"
         /\ ~(IsSome(wrapper.pdata_receiver) /\ wpc = "returned")

\* some producer end of the control channel still exists
\* (the wrapper's own control_sender is not moved by start and lives until
\* start returns; a caller that takes the wrapper apart drops it)
ControlProducerAlive ==
    \/ wpc \in {"built", "running"}
    \/ \E i \in 1 .. Len(handles) : handles[i].alive

ControlSender ==
    /\ wpc = "built"
    /\ Len(handles) < MaxHandles
    /\ handles' = Append(handles,
          [h |-> control_sender(variant, wrapper), alive |-> TRUE,
           sent |-> 0, last |-> "none"])
    /\ UNCHANGED << config, variant, wrapper, channels, wpc, startResult,
                    takes, downstream, rpc, runResult, ctrl_msg_recv,
                    portNotified, counters, conns, ctrlRecvd, dataLog,
                    emitted, sendsLeft, writesLeft, kinds, connsLeft,
                    ticksToSend >>

TakePdataReceiver ==
    /\ wpc = "built"
    /\ LET r == take_pdata_receiver(variant, wrapper)
       IN /\ wrapper' = r.fields
          /\ takes' =
                IF takes.first = None
                THEN [takes EXCEPT !.first =
                         Some([panicked |-> r.panicked, value |-> r.value])]
                ELSE [takes EXCEPT !.later =
                         @ \cup {[panicked |-> r.panicked, value |-> r.value]}]
          /\ downstream' = IF r.panicked THEN downstream ELSE "held"
    /\ UNCHANGED << config, variant, channels, wpc, startResult, handles,
                    rpc, runResult, ctrl_msg_recv, portNotified, counters,
                    conns, ctrlRecvd, dataLog, emitted, sendsLeft,
                    writesLeft, kinds, connsLeft, ticksToSend >>

\* variation of Start: an unclaimed data consumer is dropped when start begins
Start_drop_unclaimed ==
    /\ wpc = "built"
    /\ wpc' = "running"
    /\ ctrl_msg_recv' = Some(start_ctrl_msg_chan(variant, wrapper))
    /\ rpc' = "bind"
    /\ downstream' = IF IsSome(wrapper.pdata_receiver) THEN "dropped" ELSE downstream
    /\ UNCHANGED << config, variant, wrapper, channels, startResult, handles,
                    takes, runResult, portNotified, counters, conns,
                    ctrlRecvd, dataLog, emitted, sendsLeft, writesLeft,
                    kinds, connsLeft, ticksToSend >>

\* start(self) up to the await of receiver.start(ctrl_msg_chan, effect_handler)
Start ==
    /\ wpc = "built"
    /\ wpc' = "running"
    /\ ctrl_msg_recv' = Some(start_ctrl_msg_chan(variant, wrapper))
    /\ rpc' = "bind"
    /\ UNCHANGED << config, variant, wrapper, channels, startResult, handles,
                    takes, downstream, runResult, portNotified, counters,
                    conns, ctrlRecvd, dataLog, emitted, sendsLeft,
                    writesLeft, kinds, connsLeft, ticksToSend >>

\* variation of StartReturn: the receiver's error is replaced by success
StartReturn_swallow ==
    /\ wpc = "running"
    /\ rpc = "done"
    /\ wpc' = "returned"
    /\ startResult' = Some("Ok")
    /\ UNCHANGED << config, variant, wrapper, channels, handles, takes,
                    downstream, rpc, runResult, ctrl_msg_recv, portNotified,
                    counters, conns, ctrlRecvd, dataLog, emitted, sendsLeft,
                    writesLeft, kinds, connsLeft, ticksToSend >>

\* variation of StartReturn: the run is detached and start returns at once
StartReturn_detached ==
    /\ wpc = "running"
    /\ wpc' = "returned"
    /\ startResult' = IF rpc = "done" THEN runResult ELSE Some("Ok")
    /\ UNCHANGED << config, variant, wrapper, channels, handles, takes,
                    downstream, rpc, runResult, ctrl_msg_recv, portNotified,
                    counters, conns, ctrlRecvd, dataLog, emitted, sendsLeft,
                    writesLeft, kinds, connsLeft, ticksToSend >>

\* the await in start completes: start yields the receiver's result
StartReturn ==
    /\ wpc = "running"
    /\ rpc = "done"
    /\ wpc' = "returned"
    /\ startResult' = runResult
    /\ UNCHANGED << config, variant, wrapper, channels, handles, takes,
                    downstream, rpc, runResult, ctrl_msg_recv, portNotified,
                    counters, conns, ctrlRecvd, dataLog, emitted, sendsLeft,
                    writesLeft, kinds, connsLeft, ticksToSend >>

\* Sender<ControlMsg>::send(msg) on handle i
SendCtrl(i, kind) ==
    /\ sendsLeft > 0
    /\ handles[i].alive
    /\ LET id == ChanOf(handles[i].h)
       IN IF ConsumerAlive(id)
          THEN /\ ~IsFull(channels, id)
               /\ channels' = Enqueue(channels, id,
                      [msg |-> [kind |-> kind], src |-> i, n |-> handles[i].sent + 1])
               /\ handles' = [handles EXCEPT ![i].sent = @ + 1, ![i].last = "ok"]
          ELSE /\ handles' = [handles EXCEPT ![i].last = "closed"]
               /\ UNCHANGED channels
    /\ sendsLeft' = sendsLeft - 1
    /\ UNCHANGED << config, variant, wrapper, wpc, startResult, takes,
                    downstream, rpc, runResult, ctrl_msg_recv, portNotified,
                    counters, conns, ctrlRecvd, dataLog, emitted, writesLeft,
                    kinds, connsLeft, ticksToSend >>

\* ------------------------------------------------ TestReceiver::start
\* variation of Bind: the address is notified before the listener's result
\* is looked at
Bind_notify_first ==
    /\ rpc = "bind"
    /\ portNotified' = TRUE
    /\ \E ok \in BOOLEAN :
          IF ok
          THEN /\ rpc' = "select"
               /\ UNCHANGED runResult
          ELSE /\ runResult' = Some("Err(IoError)")
               /\ rpc' = "done"
    /\ UNCHANGED << config, variant, wrapper, channels, wpc, startResult,
                    handles, takes, downstream, ctrl_msg_recv, counters,
                    conns, ctrlRecvd, dataLog, emitted, sendsLeft,
                    writesLeft, kinds, connsLeft, ticksToSend >>

\* effect_handler.tcp_listener(addr)? and port_notifier.send(local_addr)
Bind ==
    /\ rpc = "bind"
    /\ \E ok \in BOOLEAN :
          IF ok
          THEN /\ portNotified' = TRUE
               /\ rpc' = "select"
               /\ UNCHANGED runResult
          ELSE /\ runResult' = Some("Err(IoError)")
               /\ rpc' = "done"
               /\ UNCHANGED portNotified
    /\ UNCHANGED << config, variant, wrapper, channels, wpc, startResult,
                    handles, takes, downstream, ctrl_msg_recv, counters,
                    conns, ctrlRecvd, dataLog, emitted, sendsLeft,
                    writesLeft, kinds, connsLeft, ticksToSend >>

\* variation of RecvCtrl: the newest queued message is taken first
RecvCtrl_newest ==
    /\ rpc = "select"
    /\ LET id == ChanOf(Unwrap(ctrl_msg_recv).recv)
           q  == channels[id].q
       IN /\ q # << >>
          /\ channels' = [channels EXCEPT ![id].q = SubSeq(q, 1, Len(q) - 1)]
          /\ counters' = update_with(counters, q[Len(q)].msg)
          /\ ctrlRecvd' = [count |-> [ctrlRecvd.count EXCEPT ![q[Len(q)].src] = @ + 1],
                           last  |-> Some(q[Len(q)])]
          /\ IF is_shutdown(q[Len(q)].msg)
             THEN rpc' = "done" /\ runResult' = Some("Ok")
             ELSE rpc' = "check" /\ UNCHANGED runResult
    /\ UNCHANGED << config, variant, wrapper, wpc, startResult, handles,
                    takes, downstream, ctrl_msg_recv, portNotified, conns,
                    dataLog, emitted, sendsLeft, writesLeft, kinds,
                    connsLeft, ticksToSend >>

\* variation of RecvCtrl: a shutdown message does not leave the loop
RecvCtrl_no_break ==
    /\ rpc = "select"
    /\ LET id == ChanOf(Unwrap(ctrl_msg_recv).recv)
           m  == Head(channels[id].q)
       IN /\ channels[id].q # << >>
          /\ channels' = Dequeue(channels, id)
          /\ counters' = update_with(counters, m.msg)
          /\ ctrlRecvd' = [count |-> [ctrlRecvd.count EXCEPT ![m.src] = @ + 1],
                           last  |-> Some(m)]
          /\ rpc' = "check"
          /\ UNCHANGED runResult
    /\ UNCHANGED << config, variant, wrapper, wpc, startResult, handles,
                    takes, downstream, ctrl_msg_recv, portNotified, conns,
                    dataLog, emitted, sendsLeft, writesLeft, kinds,
                    connsLeft, ticksToSend >>

\* variation of RecvCtrl: the loop itself waits for room on the data channel
\* (payloads sent inline instead of from a spawned task)
RecvCtrl_after_data ==
    /\ rpc = "select"
    /\ ~IsFull(channels, "pdata")
    /\ LET id == ChanOf(Unwrap(ctrl_msg_recv).recv)
           m  == Head(channels[id].q)
       IN /\ channels[id].q # << >>
          /\ channels' = Dequeue(channels, id)
          /\ counters' = update_with(counters, m.msg)
          /\ ctrlRecvd' = [count |-> [ctrlRecvd.count EXCEPT ![m.src] = @ + 1],
                           last  |-> Some(m)]
          /\ IF is_shutdown(m.msg)
             THEN rpc' = "done" /\ runResult' = Some("Ok")
             ELSE rpc' = "check" /\ UNCHANGED runResult
    /\ UNCHANGED << config, variant, wrapper, wpc, startResult, handles,
                    takes, downstream, ctrl_msg_recv, portNotified, conns,
                    dataLog, emitted, sendsLeft, writesLeft, kinds,
                    connsLeft, ticksToSend >>

\* variation of RecvCtrl: on a shutdown the message queued behind it is
\* counted as well before the loop is left
RecvCtrl_drain ==
    /\ rpc = "select"
    /\ LET id == ChanOf(Unwrap(ctrl_msg_recv).recv)
           q  == channels[id].q
           m  == Head(q)
       IN /\ q # << >>
          /\ ctrlRecvd' = [count |-> [ctrlRecvd.count EXCEPT ![m.src] = @ + 1],
                           last  |-> Some(m)]
          /\ IF is_shutdown(m.msg)
             THEN /\ rpc' = "done"
                  /\ runResult' = Some("Ok")
                  /\ channels' = [channels EXCEPT ![id].q =
                                     IF Len(q) > 1 THEN Tail(Tail(q)) ELSE << >>]
                  /\ counters' = IF Len(q) > 1
                                 THEN update_with(update_with(counters, m.msg), q[2].msg)
                                 ELSE update_with(counters, m.msg)
             ELSE /\ rpc' = "check"
                  /\ UNCHANGED runResult
                  /\ channels' = Dequeue(channels, id)
                  /\ counters' = update_with(counters, m.msg)
    /\ UNCHANGED << config, variant, wrapper, wpc, startResult, handles,
                    takes, downstream, ctrl_msg_recv, portNotified, conns,
                    dataLog, emitted, sendsLeft, writesLeft, kinds,
                    connsLeft, ticksToSend >>

\* select! branch: ctrl_msg = ctrl_msg_recv.recv()
RecvCtrl ==
    /\ rpc = "select"
    /\ LET id == ChanOf(Unwrap(ctrl_msg_recv).recv)
       IN IF channels[id].q # << >>
          THEN LET m == Head(channels[id].q)
               IN /\ channels' = Dequeue(channels, id)
                  /\ counters' = update_with(counters, m.msg)
                  /\ ctrlRecvd' = [count |-> [ctrlRecvd.count EXCEPT ![m.src] = @ + 1],
                                    last  |-> Some(m)]
                  /\ IF is_shutdown(m.msg)
                     THEN rpc' = "done" /\ runResult' = Some("Ok")
                     ELSE rpc' = "check" /\ UNCHANGED runResult
          ELSE /\ ~ControlProducerAlive
               /\ runResult' = Some("Err(ChannelClosed)")
               /\ rpc' = "done"
               /\ UNCHANGED << channels, counters, ctrlRecvd >>
    /\ UNCHANGED << config, variant, wrapper, wpc, startResult, handles,
                    takes, downstream, ctrl_msg_recv, portNotified, conns,
                    dataLog, emitted, sendsLeft, writesLeft, kinds,
                    connsLeft, ticksToSend >>

\* select! branch: accept_result = listener.accept(); spawn_local the task
Accept(p) ==
    /\ rpc = "select"
    /\ conns[p].pc = "pending"
    /\ conns' = [conns EXCEPT ![p].pc = "read",
                              ![p].eh = Some(wrapper.effect_handler)]
    /\ rpc' = "check"
    /\ UNCHANGED << config, variant, wrapper, channels, wpc, startResult,
                    handles, takes, downstream, runResult, ctrl_msg_recv,
                    portNotified, counters, ctrlRecvd, dataLog, emitted,
                    sendsLeft, writesLeft, kinds, connsLeft, ticksToSend >>

\* select! branch: sleep(1s) elapsed while no other branch was ready
Timeout ==
    /\ rpc = "select"
    /\ channels[ChanOf(Unwrap(ctrl_msg_recv).recv)].q = << >>
    /\ \A p \in Conns : conns[p].pc # "pending"
    /\ rpc' = "check"
    /\ UNCHANGED << config, variant, wrapper, channels, wpc, startResult,
                    handles, takes, downstream, runResult, ctrl_msg_recv,
                    portNotified, counters, conns, ctrlRecvd, dataLog,
                    emitted, sendsLeft, writesLeft, kinds, connsLeft,
                    ticksToSend >>

\* variation of CheckTicks: the loop is left after three timer ticks
CheckTicks_three ==
    /\ rpc = "check"
    /\ IF counters.timer_tick >= 3
       THEN rpc' = "done" /\ runResult' = Some("Ok")
       ELSE rpc' = "select" /\ UNCHANGED runResult
    /\ UNCHANGED << config, variant, wrapper, channels, wpc, startResult,
                    handles, takes, downstream, ctrl_msg_recv, portNotified,
                    counters, conns, ctrlRecvd, dataLog, emitted, sendsLeft,
                    writesLeft, kinds, connsLeft, ticksToSend >>

\* variation of CheckTicks: the loop is left only above the limit
CheckTicks_above ==
    /\ rpc = "check"
    /\ IF counters.timer_tick > TickLimit
       THEN rpc' = "done" /\ runResult' = Some("Ok")
       ELSE rpc' = "select" /\ UNCHANGED runResult
    /\ UNCHANGED << config, variant, wrapper, channels, wpc, startResult,
                    handles, takes, downstream, ctrl_msg_recv, portNotified,
                    counters, conns, ctrlRecvd, dataLog, emitted, sendsLeft,
                    writesLeft, kinds, connsLeft, ticksToSend >>

\* if get_timer_tick_count() >= 5 { break; } ... Ok(())
CheckTicks ==
    /\ rpc = "check"
    /\ IF counters.timer_tick >= TickLimit
       THEN rpc' = "done" /\ runResult' = Some("Ok")
       ELSE rpc' = "select" /\ UNCHANGED runResult
    /\ UNCHANGED << config, variant, wrapper, channels, wpc, startResult,
                    handles, takes, downstream, ctrl_msg_recv, portNotified,
                    counters, conns, ctrlRecvd, dataLog, emitted, sendsLeft,
                    writesLeft, kinds, connsLeft, ticksToSend >>

\* ------------------------------------------- connection task and client
Chunks == { << ByteH >>, << ByteH, ByteInvalid >> }

\* TcpStream::connect(addr); connections are numbered in the order they are
\* opened
ClientConnect(p) ==
    /\ portNotified
    /\ rpc # "done"
    /\ connsLeft > 0
    /\ conns[p].pc = "idle"
    /\ \A q \in 1 .. p - 1 : conns[q].pc # "idle"
    /\ conns' = [conns EXCEPT ![p].pc = "pending"]
    /\ connsLeft' = connsLeft - 1
    /\ UNCHANGED << config, variant, wrapper, channels, wpc, startResult,
                    handles, takes, downstream, rpc, runResult,
                    ctrl_msg_recv, portNotified, counters, ctrlRecvd,
                    dataLog, emitted, sendsLeft, writesLeft, kinds,
                    ticksToSend >>

\* stream.write_all(bytes)
ClientWrite(p, bytes) ==
    /\ writesLeft > 0
    /\ conns[p].pc \in {"pending", "read"}
    /\ conns[p].sock = << >>
    /\ conns' = [conns EXCEPT ![p].sock = bytes]
    /\ writesLeft' = writesLeft - 1
    /\ UNCHANGED << config, variant, wrapper, channels, wpc, startResult,
                    handles, takes, downstream, rpc, runResult,
                    ctrl_msg_recv, portNotified, counters, ctrlRecvd,
                    dataLog, emitted, sendsLeft, kinds, connsLeft,
                    ticksToSend >>

\* socket.read(&mut buf) -> Ok(n); msg = TestMsg(from_utf8_lossy(&buf[..n]))
TaskRead(p) ==
    /\ conns[p].pc = "read"
    /\ conns[p].sock # << >>
    /\ conns' = [conns EXCEPT ![p].pc = "send", ![p].sock = << >>,
                              ![p].msg = Some(TestMsg(from_utf8_lossy(conns[p].sock)))]
    /\ UNCHANGED << config, variant, wrapper, channels, wpc, startResult,
                    handles, takes, downstream, rpc, runResult,
                    ctrl_msg_recv, portNotified, counters, ctrlRecvd,
                    dataLog, emitted, sendsLeft, writesLeft, kinds,
                    connsLeft, ticksToSend >>

\* variation of TaskSend: a full channel is not waited for, the payload is
\* discarded and the task carries on as after a completed send
TaskSend_no_wait(p) ==
    /\ conns[p].pc = "send"
    /\ LET id == ChanOf(Unwrap(conns[p].eh).pdata_sender)
           m  == Unwrap(conns[p].msg)
       IN /\ channels' = IF IsFull(channels, id) THEN channels
                         ELSE Enqueue(channels, id,
                                [msg |-> m, src |-> p, n |-> Len(emitted[p]) + 1])
          /\ emitted' = [emitted EXCEPT ![p] = Append(@, m)]
          /\ conns' = [conns EXCEPT ![p].pc = "read", ![p].msg = << >>,
                                    ![p].acks = @ + 1]
    /\ UNCHANGED << config, variant, wrapper, wpc, startResult, handles,
                    takes, downstream, rpc, runResult, ctrl_msg_recv,
                    portNotified, counters, ctrlRecvd, dataLog, sendsLeft,
                    writesLeft, kinds, connsLeft, ticksToSend >>

\* variation of TaskSend: a failed send_message is ignored and the task
\* carries on as after a completed send
TaskSend_ignore_closed(p) ==
    /\ conns[p].pc = "send"
    /\ LET id == ChanOf(Unwrap(conns[p].eh).pdata_sender)
           m  == Unwrap(conns[p].msg)
       IN IF ConsumerAlive(id)
          THEN /\ ~IsFull(channels, id)
               /\ channels' = Enqueue(channels, id,
                     [msg |-> m, src |-> p, n |-> Len(emitted[p]) + 1])
               /\ emitted' = [emitted EXCEPT ![p] = Append(@, m)]
               /\ conns' = [conns EXCEPT ![p].pc = "read", ![p].msg = << >>,
                                         ![p].acks = @ + 1]
          ELSE /\ conns' = [conns EXCEPT ![p].pc = "read", ![p].msg = << >>,
                                         ![p].acks = @ + 1]
               /\ UNCHANGED << channels, emitted >>
    /\ UNCHANGED << config, variant, wrapper, wpc, startResult, handles,
                    takes, downstream, rpc, runResult, ctrl_msg_recv,
                    portNotified, counters, ctrlRecvd, dataLog, sendsLeft,
                    writesLeft, kinds, connsLeft, ticksToSend >>

\* effect_handler.send_message(msg).await, then socket.write_all(b"ack")
TaskSend(p) ==
    /\ conns[p].pc = "send"
    /\ LET id == ChanOf(Unwrap(conns[p].eh).pdata_sender)
           m  == Unwrap(conns[p].msg)
       IN IF ConsumerAlive(id)
          THEN /\ ~IsFull(channels, id)
               /\ channels' = Enqueue(channels, id,
                     [msg |-> m, src |-> p, n |-> Len(emitted[p]) + 1])
               /\ emitted' = [emitted EXCEPT ![p] = Append(@, m)]
               /\ conns' = [conns EXCEPT ![p].pc = "read", ![p].msg = << >>,
                                         ![p].acks = @ + 1]
          ELSE /\ conns' = [conns EXCEPT ![p].pc = "panicked"]
               /\ UNCHANGED << channels, emitted >>
    /\ UNCHANGED << config, variant, wrapper, wpc, startResult, handles,
                    takes, downstream, rpc, runResult, ctrl_msg_recv,
                    portNotified, counters, ctrlRecvd, dataLog, sendsLeft,
                    writesLeft, kinds, connsLeft, ticksToSend >>

\* ------------------------------------------------- downstream consumer
\* the handle returned by the successful take_pdata_receiver call
TakeOutcomes ==
    (IF IsSome(takes.first) THEN {Unwrap(takes.first)} ELSE {}) \cup takes.later

ClaimedConsumer ==
    Unwrap((CHOOSE o \in TakeOutcomes : ~o.panicked).value)

\* Receiver<PData>::recv() by the holder of the claimed consumer
RecvPdata ==
    /\ downstream = "held"
    /\ LET id == ChanOf(ClaimedConsumer)
           m  == Head(channels[id].q)
       IN /\ channels[id].q # << >>
          /\ dataLog' = [count |-> [dataLog.count EXCEPT ![m.src] = @ + 1],
                        last  |-> Some(m)]
          /\ channels' = Dequeue(channels, id)
    /\ UNCHANGED << config, variant, wrapper, wpc, startResult, handles,
                    takes, downstream, rpc, runResult, ctrl_msg_recv,
                    portNotified, counters, conns, ctrlRecvd, emitted,
                    sendsLeft, writesLeft, kinds, connsLeft, ticksToSend >>

\* ------------------------------------------------------ specification
Next ==
    \/ ControlSender
    \/ TakePdataReceiver
    \/ Start
    \/ StartReturn
    \/ \E i \in 1 .. Len(handles) : \E kind \in kinds : SendCtrl(i, kind)
    \/ Bind
    \/ RecvCtrl
    \/ \E p \in Conns : Accept(p)
    \/ Timeout
    \/ CheckTicks
    \/ \E p \in Conns : ClientConnect(p)
    \/ \E p \in Conns : \E bytes \in Chunks : ClientWrite(p, bytes)
    \/ \E p \in Conns : TaskRead(p)
    \/ \E p \in Conns : TaskSend(p)
    \/ RecvPdata

Spec == Init /\ [][Next]_vars

\* the wrapper and the receiver loop without any client
NextControl ==
    \/ ControlSender
    \/ TakePdataReceiver
    \/ Start
    \/ StartReturn
    \/ \E i \in 1 .. Len(handles) : \E kind \in kinds : SendCtrl(i, kind)
    \/ Bind
    \/ RecvCtrl
    \/ Timeout
    \/ CheckTicks

\* runs of one environment only
ControlSpec == InitBudget(ControlBudget) /\ [][NextControl]_vars
DataSpec == InitBudget(DataBudget) /\ [][Next]_vars

\* the runtime keeps polling the receiver future and the future of start
\* whenever they are ready ...
RuntimeReceiver ==
    /\ WF_vars(Bind \/ RecvCtrl \/ (\E p \in Conns : Accept(p)) \/ Timeout \/ CheckTicks)
    /\ WF_vars(StartReturn)
\* ... and the spawned connection tasks
RuntimeTasks ==
    \A p \in Conns : WF_vars(TaskRead(p)) /\ WF_vars(TaskSend(p))

FairSpec == InitBudget(MixedBudget) /\ [][Next]_vars /\ RuntimeReceiver

\* in addition the holder of the data consumer keeps draining it
DrainSpec ==
    /\ InitBudget(BackpressureBudget)
    /\ [][Next]_vars
    /\ RuntimeReceiver
    /\ RuntimeTasks
    /\ WF_vars(RecvPdata)

\* ------------------------------------------- the scripted test scenario
\* b"Hello from test client": ASCII bytes, and the same text as characters
HelloBytes == << ByteH >>
HelloText == << ByteH >>

InitScenario ==
    /\ \E cfg \in Configs : \E w \in {local(cfg), shared(cfg)} : InitWith(cfg, w)
    /\ \E k \in 0 .. MaxScenarioTicks : ticksToSend = k /\ sendsLeft = k + 2
    /\ writesLeft = 1
    /\ connsLeft = 1
    /\ kinds = ControlMsgKinds

\* TestRuntime::set_receiver: keeps a control sender and the data consumer
ScnControlSender == Len(handles) = 0 /\ ControlSender
ScnTakePdataReceiver == Len(handles) = 1 /\ takes.first = None /\ TakePdataReceiver
\* TestRuntime::run_test: starts the receiver next to the scenario
ScnStart == IsSome(takes.first) /\ Start

\* port_rx.await, TcpStream::connect(addr)
ScnConnect == ClientConnect(1)
\* stream.write_all(b"Hello from test client")
ScnWrite == ClientWrite(1, HelloBytes)
\* stream.read(&mut buf) returned b"ack", and no send has failed so far
ScnAcked == conns[1].acks = 1 /\ handles[1].last # "closed"

\* for _ in 0..k { ctx.send_timer_tick().await.expect(..) }
ScnSendTick ==
    /\ ScnAcked
    /\ handles[1].sent < ticksToSend
    /\ SendCtrl(1, "TimerTick")
\* ctx.send_config(Value::Null).await.expect(..)
ScnSendConfig ==
    /\ ScnAcked
    /\ handles[1].sent = ticksToSend
    /\ SendCtrl(1, "Config")
\* ctx.send_shutdown(Duration::from_millis(200), "Test").await.expect(..)
ScnSendShutdown ==
    /\ ScnAcked
    /\ handles[1].sent = ticksToSend + 1
    /\ SendCtrl(1, "Shutdown")
\* the scenario closure has run to its end
ScnFinished == ScnAcked /\ handles[1].sent = ticksToSend + 2

\* validation_procedure: timeout(3s, ctx.recv()) once the test has run
ScnValidate ==
    /\ ScnFinished
    /\ wpc = "returned"
    /\ RecvPdata

NextScenario ==
    \/ ScnControlSender
    \/ ScnTakePdataReceiver
    \/ ScnStart
    \/ StartReturn
    \/ Bind
    \/ RecvCtrl
    \/ \E p \in Conns : Accept(p)
    \/ Timeout
    \/ CheckTicks
    \/ ScnConnect
    \/ ScnWrite
    \/ \E p \in Conns : TaskRead(p)
    \/ \E p \in Conns : TaskSend(p)
    \/ ScnSendTick
    \/ ScnSendConfig
    \/ ScnSendShutdown
    \/ ScnValidate

\* the test runtime keeps running the receiver, the tasks and the script
SpecScenario ==
    /\ InitScenario
    /\ [][NextScenario]_vars
    /\ RuntimeReceiver
    /\ RuntimeTasks
    /\ WF_vars(ScnControlSender \/ ScnTakePdataReceiver \/ ScnStart \/ ScnConnect
                 \/ ScnWrite \/ ScnSendTick \/ ScnSendConfig \/ ScnSendShutdown
                 \/ ScnValidate)

\* ================================================================ claims

\* C1: take_pdata_receiver succeeds at most once: the first call returns the
\* consumer of the data channel and leaves the slot None, every later call
\* panics and returns nothing.
C1_TakeAtMostOnce ==
    /\ IsSome(takes.first) =>
          /\ ~Unwrap(takes.first).panicked
          /\ IsSome(Unwrap(takes.first).value)
          /\ ChanOf(Unwrap(Unwrap(takes.first).value)) = "pdata"
    /\ \A o \in takes.later : o.panicked /\ o.value = None
    /\ IsSome(takes.first) => wrapper.pdata_receiver = None
    /\ takes.first = None => IsSome(wrapper.pdata_receiver) /\ takes.later = {}

C1_Witness ==
    /\ IsSome(takes.first)
    /\ ~Unwrap(takes.first).panicked
    /\ \E o \in takes.later : o.panicked
    /\ wpc = "built"

\* C2: every handle returned by control_sender is a producer of the one
\* control channel whose consumer start hands to the receiver, and every
\* message accepted from any handle is in that channel or has been received
\* by that consumer (none lost, none duplicated, none delivered elsewhere).
C2_ControlMpsc ==
    LET id == ChanOf(wrapper.control_receiver)
    IN /\ \A i \in 1 .. Len(handles) :
             /\ ChanOf(handles[i].h) = id
             /\ handles[i].sent =
                   ctrlRecvd.count[i] + Len(SelectSeq2(channels[id].q, i))
       /\ IsSome(ctrl_msg_recv) => ChanOf(Unwrap(ctrl_msg_recv).recv) = id
       /\ \A k \in 1 .. Len(channels["pdata"].q) :
             "kind" \notin DOMAIN channels["pdata"].q[k].msg

C2_Witness ==
    /\ Len(handles) = 2
    /\ ctrlRecvd.count[1] >= 1
    /\ ctrlRecvd.count[2] >= 1

\* C3: the result of start is exactly the result returned by the receiver's
\* run entry point, success or error, and there is no result before that.
C3_StartResult ==
    /\ wpc = "returned" => IsSome(runResult) /\ startResult = runResult
    /\ wpc # "returned" => startResult = None

C3_Witness ==
    /\ wpc = "returned"
    /\ startResult = Some("Err(IoError)")

\* C4: start returns only after the receiver's run entry point has returned.
C4_StartBlocks ==
    [][(wpc # "returned" /\ wpc' = "returned") => (rpc = "done" /\ IsSome(runResult))]_vars

C4_Witness ==
    /\ wpc = "returned"
    /\ startResult = Some("Ok")
    /\ counters.shutdown = 1

Suspended(p) ==
    /\ conns[p].pc = "send"
    /\ IsFull(channels, "pdata")
    /\ ConsumerAlive("pdata")

\* C6: the data channel never holds more than config.output_pdata_channel
\* .capacity items; a send_message on the full channel stays suspended with
\* its payload (no drop, no error), can proceed as soon as there is room, and
\* completes when the consumer drains.
C6_Backpressure ==
    /\ [](Len(channels["pdata"].q) <= config.pdata_capacity)
    /\ [][\A p \in Conns :
            Suspended(p) => /\ conns'[p].pc = "send"
                            /\ conns'[p].msg = conns[p].msg]_vars
    /\ [](\A p \in Conns :
            (conns[p].pc = "send" /\ ~IsFull(channels, "pdata")) => ENABLED TaskSend(p))
    /\ \A p \in Conns :
            (Suspended(p) /\ downstream = "held") ~> (conns[p].pc = "read")

C6_Witness ==
    /\ Suspended(1)
    /\ downstream = "held"

\* C7: the control messages of one handle are queued and received in the
\* order they were sent on that handle, however the handles interleave.
C7_ControlFifo ==
    /\ \A i \in 1 .. Len(handles) :
          LET inq == SelectSeq2(channels["control"].q, i)
          IN \A k \in 1 .. Len(inq) : inq[k].n = ctrlRecvd.count[i] + k
    /\ IsSome(ctrlRecvd.last) =>
          Unwrap(ctrlRecvd.last).n = ctrlRecvd.count[Unwrap(ctrlRecvd.last).src]

C7_Witness ==
    /\ ctrlRecvd.count[1] >= 2
    /\ ctrlRecvd.count[2] >= 1

\* the receiver's control-channel receive has yielded a shutdown message
ShutdownDelivered ==
    /\ IsSome(ctrlRecvd.last)
    /\ is_shutdown(Unwrap(ctrlRecvd.last).msg)

\* C8: once the run loop has received a shutdown message, the loop ends,
\* start eventually returns success, and the shutdown counter is exactly one,
\* whatever else is queued or in progress.
C8_ShutdownTerminates ==
    /\ ShutdownDelivered ~> (wpc = "returned" /\ startResult = Some("Ok"))
    /\ [](ShutdownDelivered =>
            /\ rpc = "done"
            /\ runResult = Some("Ok")
            /\ counters.shutdown = 1)

C8_Witness ==
    /\ ShutdownDelivered
    /\ wpc = "returned"
    /\ channels["control"].q # << >>
    /\ conns[1].pc = "send"

\* the channel implementation that goes with an affinity
ImplOf(v) == IF v = "Local" THEN "otap" ELSE "tokio"

\* C10: the variant chosen by the constructor never changes, and every handle
\* the wrapper gives out carries it: control senders and the data consumer
\* are tagged with the wrapper's variant over that variant's channel type, and
\* start builds that variant's control channel.
C10_AffinityFixed ==
    /\ [][variant' = variant]_vars
    /\ [](/\ wrapper.effect_handler.affinity =
                (IF variant = "Local" THEN "local" ELSE "shared")
          /\ \A i \in 1 .. Len(handles) :
                /\ handles[i].h.tag = variant
                /\ handles[i].h.inner.impl = ImplOf(variant)
          /\ \A o \in TakeOutcomes :
                ~o.panicked =>
                    /\ Unwrap(o.value).tag = variant
                    /\ Unwrap(o.value).inner.impl = ImplOf(variant)
          /\ IsSome(ctrl_msg_recv) =>
                /\ Unwrap(ctrl_msg_recv).ty =
                      (IF variant = "Local" THEN "local::ControlChannel"
                                            ELSE "shared::ControlChannel")
                /\ Inner(Unwrap(ctrl_msg_recv).recv).impl = ImplOf(variant))

C10_Witness ==
    /\ variant = "Shared"
    /\ Len(handles) >= 1
    /\ IsSome(takes.first)
    /\ IsSome(ctrl_msg_recv)

\* C9: in the scripted scenario with k < 5 timer ticks, for both variants:
\* no send fails, the run ends only with success and with the counters at
\* (k, 0, 1, 1), start returns success, the payload received downstream
\* carries the text the client sent, and all of this eventually happens.
C9_Scenario ==
    /\ [](ticksToSend < TickLimit =>
            /\ \A i \in 1 .. Len(handles) : handles[i].last # "closed"
            /\ (rpc = "done" /\ portNotified) =>
                  /\ runResult = Some("Ok")
                  /\ counters = [timer_tick |-> ticksToSend, message |-> 0,
                                 config |-> 1, shutdown |-> 1]
            /\ (wpc = "returned" /\ portNotified) => startResult = Some("Ok")
            /\ IsSome(dataLog.last) =>
                  Unwrap(dataLog.last).msg = TestMsg(HelloText))
    /\ (ticksToSend < TickLimit /\ portNotified) ~>
            (wpc = "returned" /\ IsSome(dataLog.last))

C9_Witness ==
    /\ ticksToSend = 3
    /\ variant = "Local"
    /\ wpc = "returned"
    /\ IsSome(dataLog.last)
    /\ counters = [timer_tick |-> 3, message |-> 0, config |-> 1, shutdown |-> 1]

\* ------------------------------------- the two constructors side by side
Other(v) == IF v = "Local" THEN "Shared" ELSE "Local"

\* what the other constructor builds from the same configuration
OtherBuild(cfg, v) == IF v = "Local" THEN shared(cfg) ELSE local(cfg)

\* the other variant's wrapper after the same calls: take_pdata_receiver is
\* the only operation that assigns a field
TwinWrapper(cfg, v, w) ==
    IF IsSome(w.pdata_receiver)
    THEN OtherBuild(cfg, v).fields
    ELSE [OtherBuild(cfg, v).fields EXCEPT !.pdata_receiver = None]

\* a wrapper without its affinity tags and channel types
EraseWrapper(w) ==
    [ pdata_sender     |-> ChanOf(w.effect_handler.pdata_sender),
      control_sender   |-> ChanOf(w.control_sender),
      control_receiver |-> ChanOf(w.control_receiver),
      pdata_receiver   |-> IF IsSome(w.pdata_receiver)
                           THEN Some(ChanOf(Unwrap(w.pdata_receiver)))
                           ELSE None ]

\* the outcome of take_pdata_receiver without tags
EraseTake(r) ==
    [ panicked |-> r.panicked,
      value    |-> IF IsSome(r.value) THEN Some(ChanOf(Unwrap(r.value))) ELSE None,
      fields   |-> EraseWrapper(r.fields) ]

ctrl_recv_outcome ==
    IF channels[ChanOf(wrapper.control_receiver)].q # << >> THEN "message"
    ELSE IF ~ControlProducerAlive THEN "closed"
    ELSE "pending"

\* a control sender handle goes out of scope
DropHandle(i) ==
    /\ handles[i].alive
    /\ handles' = [handles EXCEPT ![i].alive = FALSE]
    /\ UNCHANGED << config, variant, wrapper, channels, wpc, startResult,
                    takes, downstream, rpc, runResult, ctrl_msg_recv,
                    portNotified, counters, conns, ctrlRecvd, dataLog,
                    emitted, sendsLeft, writesLeft, kinds, connsLeft,
                    ticksToSend >>

\* the holder of the claimed data consumer drops it
DropConsumer ==
    /\ downstream = "held"
    /\ downstream' = "dropped"
    /\ UNCHANGED << config, variant, wrapper, channels, wpc, startResult,
                    handles, takes, rpc, runResult, ctrl_msg_recv,
                    portNotified, counters, conns, ctrlRecvd, dataLog,
                    emitted, sendsLeft, writesLeft, kinds, connsLeft,
                    ticksToSend >>

\* Receiver::start(self: Box<Self>, ctrl_msg_recv, effect_handler) called by a
\* caller that took the wrapper's public fields apart itself: the producers of
\* the control channel are then the handles alone
StartDirect ==
    /\ wpc = "built"
    /\ wpc' = "direct"
    /\ ctrl_msg_recv' = Some(start_ctrl_msg_chan(variant, wrapper))
    /\ rpc' = "bind"
    /\ UNCHANGED << config, variant, wrapper, channels, startResult, handles,
                    takes, downstream, runResult, portNotified, counters,
                    conns, ctrlRecvd, dataLog, emitted, sendsLeft,
                    writesLeft, kinds, connsLeft, ticksToSend >>

\* Lifetimes: one client writing once, two control messages, and handles and
\* the data consumer that may be dropped.
LifetimeBudget ==
    [sends |-> 2, kinds |-> {"TimerTick", "Shutdown"}, conns |-> 1, writes |-> 1]

NextLifetime ==
    \/ Next
    \/ \E i \in 1 .. Len(handles) : DropHandle(i)
    \/ DropConsumer
    \/ StartDirect

LifetimeSpec == InitBudget(LifetimeBudget) /\ [][NextLifetime]_vars

\* C12: while the receiver started by the wrapper waits on its control channel
\* with the channel empty and every handle given out dropped, recv yields the
\* closed-channel signal.
C12_ClosedWhenHandlesDropped ==
    ( /\ wpc = "running"
      /\ rpc = "select"
      /\ Len(handles) >= 1
      /\ \A i \in 1 .. Len(handles) : ~handles[i].alive
      /\ channels[ChanOf(wrapper.control_receiver)].q = << >> )
    => ctrl_recv_outcome = "closed"

\* C13: a send on a channel whose consumer is gone is never suspended and
\* never succeeds: a control send then returns the closed-channel error to its
\* caller and queues nothing, and send_message then returns the error to the
\* connection task (which panics with it) and queues nothing.
C13_SendAfterConsumerGone ==
    /\ [][\A i \in 1 .. Len(handles) :
            ( /\ sendsLeft' < sendsLeft
              /\ handles'[i] # handles[i]
              /\ ~ConsumerAlive("control") )
            => /\ handles'[i].last = "closed"
               /\ handles'[i].sent = handles[i].sent
               /\ channels' = channels]_vars
    /\ [][\A p \in Conns :
            ( /\ conns[p].pc = "send"
              /\ conns'[p] # conns[p]
              /\ ~ConsumerAlive("pdata") )
            => /\ conns'[p].pc = "panicked"
               /\ channels' = channels
               /\ emitted' = emitted]_vars
    /\ [](\A i \in 1 .. Len(handles) :
            (handles[i].alive /\ sendsLeft > 0 /\ ~ConsumerAlive("control"))
            => \A kind \in kinds : ENABLED SendCtrl(i, kind))
    /\ [](\A p \in Conns :
            (conns[p].pc = "send" /\ ~ConsumerAlive("pdata")) => ENABLED TaskSend(p))

C13_Witness ==
    /\ downstream = "dropped"
    /\ conns[1].pc = "panicked"
    /\ rpc = "done"
    /\ \E i \in 1 .. Len(handles) : handles[i].last = "closed"

\* ------------------------------------------ independence of the two planes
\* Independence: as many shutdown messages as the control channel holds, and
\* one client writing one chunk more than the data channel holds.
IndependenceBudget ==
    [sends |-> CtrlCapacity, kinds |-> {"Shutdown"}, conns |-> 1,
     writes |-> PdataCapacity + 1]

IndependenceSpec ==
    InitBudget(IndependenceBudget) /\ [][Next]_vars /\ RuntimeReceiver

\* a shutdown message is queued on the control channel
ShutdownQueued ==
    \E k \in 1 .. Len(channels["control"].q) :
        is_shutdown(channels["control"].q[k].msg)

\* C14: while the data channel is full a control send with room on the control
\* channel can complete and the loop can receive a queued control message, so
\* a shutdown queued while the data channel is full ends the run and start
\* with success; and while the control channel is full a payload send with
\* room on the data channel can complete.
C14_IndependentBackpressure ==
    /\ [](\A i \in 1 .. Len(handles) :
            ( /\ IsFull(channels, "pdata")
              /\ handles[i].alive
              /\ sendsLeft > 0
              /\ ~IsFull(channels, "control") )
            => \A kind \in kinds : ENABLED SendCtrl(i, kind))
    /\ []( ( /\ IsFull(channels, "pdata")
             /\ rpc = "select"
             /\ channels["control"].q # << >> )
           => ENABLED RecvCtrl )
    /\ (IsFull(channels, "pdata") /\ ShutdownQueued /\ rpc = "select")
          ~> (wpc = "returned" /\ startResult = Some("Ok"))
    /\ [](\A p \in Conns :
            ( /\ IsFull(channels, "control")
              /\ conns[p].pc = "send"
              /\ ~IsFull(channels, "pdata") )
            => ENABLED TaskSend(p))

C14_Witness ==
    /\ Suspended(1)
    /\ dataLog.count[1] = 0
    /\ wpc = "returned"
    /\ startResult = Some("Ok")
    /\ counters.shutdown = 1

\* C15: when acquiring the listener fails, the run has returned that error
\* and start, once returned, reports it (not success); no control message has
\* been consumed, no counter updated, no connection accepted, no payload
\* emitted and the listening address has not been notified, then or later.
C15_BindFailure ==
    runResult = Some("Err(IoError)") =>
        /\ rpc = "done"
        /\ wpc = "returned" => startResult = Some("Err(IoError)")
        /\ startResult # Some("Ok")
        /\ ~portNotified
        /\ counters = ZeroCounters
        /\ ctrlRecvd = [count |-> [i \in 1 .. MaxHandles |-> 0], last |-> None]
        /\ \A p \in Conns : conns[p] = IdleConn /\ emitted[p] = << >>
        /\ channels["pdata"].q = << >>

C15_Witness ==
    /\ runResult = Some("Err(IoError)")
    /\ wpc = "returned"
    /\ startResult = Some("Err(IoError)")
    /\ channels["control"].q # << >>
    /\ \E i \in 1 .. Len(handles) : handles[i].last = "closed"

\* C16: when the receiver's control-channel receive yields the closed-channel
\* condition, the run ends as it does for a shutdown message: with success.
C16_ClosedIsShutdown ==
    [][(rpc = "select" /\ ctrl_recv_outcome = "closed" /\ rpc' = "done")
          => runResult' = Some("Ok")]_vars

\* ------------------------------------------------------ the tick limit
\* Ticks: one timer tick more than the limit, and nothing else.
TickBudget ==
    [sends |-> TickLimit + 1, kinds |-> {"TimerTick"}, conns |-> 0, writes |-> 0]

TickSpec == InitBudget(TickBudget) /\ [][NextControl]_vars /\ RuntimeReceiver

\* C17: the timer-tick counter never exceeds 5; once it is 5 the loop does not
\* wait again: its next step leaves the loop with success, no shutdown having
\* been sent, and start returns success; a run without shutdown succeeds only
\* at the limit; and after the fifth tick no control message is consumed.
C17_TickLimit ==
    /\ [](counters.timer_tick <= TickLimit)
    /\ [](counters.timer_tick = TickLimit => rpc \in {"check", "done"})
    /\ [][(rpc = "check" /\ counters.timer_tick = TickLimit /\ rpc' # rpc)
            => (rpc' = "done" /\ runResult' = Some("Ok"))]_vars
    /\ []((runResult = Some("Ok") /\ counters.shutdown = 0)
            => counters.timer_tick = TickLimit)
    /\ [][counters.timer_tick = TickLimit
            => (counters' = counters /\ ctrlRecvd' = ctrlRecvd)]_vars
    /\ (counters.timer_tick = TickLimit)
          ~> (wpc = "returned" /\ startResult = Some("Ok"))

C17_Witness ==
    /\ counters = [timer_tick |-> TickLimit, message |-> 0, config |-> 0,
                   shutdown |-> 0]
    /\ wpc = "returned"
    /\ startResult = Some("Ok")
    /\ sendsLeft = 0
    /\ channels["control"].q # << >>

\* ------------------------------------------------- counting after shutdown
RECURSIVE SumTo(_, _)
\* f[1] + ... + f[n]
SumTo(f, n) == IF n = 0 THEN 0 ELSE f[n] + SumTo(f, n - 1)

\* 1 when the control message is of the kind, 0 otherwise
OneIf(msg, kind) == IF msg.kind = kind THEN 1 ELSE 0

\* C18: once the loop has received a shutdown, no control message is consumed
\* and no counter changes any more, whatever is queued behind the shutdown or
\* sent after it; and every consumed message has raised the counter of its
\* kind, and no other, by exactly one.
C18_NothingAfterShutdown ==
    /\ [][ShutdownDelivered =>
            /\ counters' = counters
            /\ ctrlRecvd' = ctrlRecvd
            /\ channels'["control"] = channels["control"]]_vars
    /\ [][ctrlRecvd' # ctrlRecvd =>
            LET m == Unwrap(ctrlRecvd'.last).msg
            IN /\ SumTo(ctrlRecvd'.count, MaxHandles) =
                     SumTo(ctrlRecvd.count, MaxHandles) + 1
               /\ counters' =
                     [timer_tick |-> counters.timer_tick + OneIf(m, "TimerTick"),
                      message    |-> counters.message,
                      config     |-> counters.config + OneIf(m, "Config"),
                      shutdown   |-> counters.shutdown + OneIf(m, "Shutdown")]]_vars
    /\ [][counters' # counters => ctrlRecvd' # ctrlRecvd]_vars
    /\ [](counters.timer_tick + counters.message + counters.config
             + counters.shutdown = SumTo(ctrlRecvd.count, MaxHandles))

C18_Witness ==
    /\ ShutdownDelivered
    /\ counters.shutdown = 1
    /\ channels["control"].q # << >>
    /\ \E i \in 1 .. Len(handles) : handles[i].last = "closed"

\* ------------------------------------------------ the unclaimed consumer
\* start is running and take_pdata_receiver was never called
UnclaimedRun == wpc = "running" /\ takes.first = None

\* C19: control_sender and take_pdata_receiver act only before start. When the
\* data consumer was not claimed, then during the whole of start it is alive:
\* no send_message fails, a send with room is accepted, the accepted payloads
\* (at most the capacity) all stay queued and none is ever received, and a
\* send on the full channel stays suspended with its payload.
C19_UnclaimedConsumer ==
    /\ [][(Len(handles') > Len(handles) \/ takes' # takes \/ wrapper' # wrapper)
            => (wpc = "built" /\ wpc' = "built")]_vars
    /\ [](UnclaimedRun =>
            /\ ConsumerAlive("pdata")
            /\ IsSome(wrapper.pdata_receiver)
            /\ \A p \in Conns :
                  /\ conns[p].pc # "panicked"
                  /\ (conns[p].pc = "send" /\ ~IsFull(channels, "pdata"))
                        => ENABLED TaskSend(p)
                  /\ (conns[p].pc = "send" /\ IsFull(channels, "pdata"))
                        => ~ENABLED TaskSend(p)
                  /\ SelectSeq2(channels["pdata"].q, p) =
                        [k \in 1 .. Len(emitted[p]) |->
                            [msg |-> emitted[p][k], src |-> p, n |-> k]]
            /\ Len(channels["pdata"].q) <= config.pdata_capacity)
    /\ [](takes.first = None => dataLog.last = None)
    /\ [][\A p \in Conns :
            (UnclaimedRun /\ conns[p].pc = "send" /\ IsFull(channels, "pdata"))
            => (conns'[p].pc = "send" /\ conns'[p].msg = conns[p].msg)]_vars

C19_Witness ==
    /\ UnclaimedRun
    /\ conns[1].pc = "send"
    /\ Len(channels["pdata"].q) = config.pdata_capacity
    /\ Len(emitted[1]) = config.pdata_capacity
    /\ rpc = "select"

====
